---------------------------- MODULE Spec2Model ----------------------------
(***************************************************************************)
(* GGompertz/NBD log-likelihood evaluator (src/src/ggomnbd_LL.cpp).        *)
(*                                                                         *)
(* The four exported entry points, the shared per-customer evaluator       *)
(* ggomnbd_LL_ind, the file-scope integration globals and the quadrature   *)
(* callback are modelled.  double is modelled by a scaled-down binary      *)
(* floating-point format with no mantissa bits: the values are NaN, +Inf,  *)
(* -Inf, 0 and s * 2^e for s in {1,-1} and e in -EMax..EMax.  Every        *)
(* arithmetic operation rounds its exact result to the nearest such value  *)
(* (nearest exponent), overflows to +/-Inf above 2^EMax and underflows to  *)
(* 0 below 2^-EMax, as IEEE-754 does at 2^1024 and 2^-1074.  exp and log   *)
(* are taken to base 2, the natural base of this format.                   *)
(***************************************************************************)
EXTENDS Integers, Sequences, FiniteSets, TLC

\* Largest binary exponent of a finite model double (IEEE-754: 1023).
EMax == 3

\* Most customers in one batch (length of vX).
MaxN == 2

-----------------------------------------------------------------------------
(* The model double.                                                       *)

NaN  == [k |-> "nan",  s |-> 0, e |-> 0]
Zero == [k |-> "zero", s |-> 0, e |-> 0]
PInf == [k |-> "inf",  s |-> 1, e |-> 0]
NInf == [k |-> "inf",  s |-> -1, e |-> 0]

Inf(s) == [k |-> "inf", s |-> s, e |-> 0]

\* s * 2^e rounded into the format: overflow to +/-Inf, underflow to 0.
Norm(s, e) ==
  IF e > EMax THEN Inf(s)
  ELSE IF e < -EMax THEN Zero
  ELSE [k |-> "fin", s |-> s, e |-> e]

One  == Norm(1, 0)
Two  == Norm(1, 1)
Four == Norm(1, 2)
Half == Norm(1, -1)

IsNaN(a)    == a.k = "nan"
IsFinite(a) == a.k \in {"zero", "fin"}

Abs(i) == IF i < 0 THEN -i ELSE i
Sgn(i) == IF i < 0 THEN -1 ELSE IF i > 0 THEN 1 ELSE 0
IMax(i, j) == IF i >= j THEN i ELSE j
IMin(i, j) == IF i <= j THEN i ELSE j

\* Nearest binary exponent of the integer m >= 1: the k with
\* 2^(k - 1/2) < m <= 2^(k + 1/2).
RECURSIVE RoundLog2From(_, _)
RoundLog2From(m, k) ==
  IF m * m <= 2^(2*k + 1) THEN k ELSE RoundLog2From(m, k + 1)

RoundLog2(m) == RoundLog2From(m, 0)

\* The integer i as a model double.
IntToD(i) == IF i = 0 THEN Zero ELSE Norm(Sgn(i), RoundLog2(Abs(i)))

\* i / 2^d (d >= 0) rounded to the nearest integer, ties to even.
RoundDiv(i, d) ==
  LET q  == 2^d
      fl == i \div q
      rm == i % q
  IN IF 2 * rm < q THEN fl
     ELSE IF 2 * rm > q THEN fl + 1
     ELSE IF fl % 2 = 0 THEN fl ELSE fl + 1

\* The finite value s * 2^e (or zero) scaled by the integer m and rounded to
\* the nearest integer.
TimesRounded(m, a) ==
  IF a.k = "zero" THEN 0
  ELSE IF a.e >= 0 THEN m * a.s * 2^(a.e)
  ELSE RoundDiv(m * a.s, -(a.e))

\* unary minus
DNeg(a) ==
  IF a.k \in {"nan", "zero"} THEN a ELSE [a EXCEPT !.s = -(a.s)]

\* a + b
DAdd(a, b) ==
  IF IsNaN(a) \/ IsNaN(b) THEN NaN
  ELSE IF a.k = "inf" /\ b.k = "inf" THEN (IF a.s = b.s THEN a ELSE NaN)
  ELSE IF a.k = "inf" THEN a
  ELSE IF b.k = "inf" THEN b
  ELSE IF a.k = "zero" THEN b
  ELSE IF b.k = "zero" THEN a
  ELSE LET hi == IF a.e >= b.e THEN a ELSE b
           lo == IF a.e >= b.e THEN b ELSE a
           d  == hi.e - lo.e
       IN IF a.s = b.s
          THEN Norm(hi.s, IF d <= 1 THEN hi.e + 1 ELSE hi.e)   \* 2, 1.5, <= 1.25
          ELSE IF d = 0 THEN Zero                             \* exact cancellation
          ELSE IF d = 1 THEN Norm(hi.s, lo.e)                 \* 2^e - 2^(e-1)
          ELSE Norm(hi.s, hi.e)                               \* >= 0.75 * 2^e

\* a - b
DSub(a, b) == DAdd(a, DNeg(b))

\* a * b
DMul(a, b) ==
  IF IsNaN(a) \/ IsNaN(b) THEN NaN
  ELSE IF a.k = "inf" \/ b.k = "inf"
       THEN (IF a.k = "zero" \/ b.k = "zero" THEN NaN ELSE Inf(a.s * b.s))
  ELSE IF a.k = "zero" \/ b.k = "zero" THEN Zero
  ELSE Norm(a.s * b.s, a.e + b.e)

\* a < b, a > b, a == b on doubles (every comparison with NaN is false)
DLess(a, b) ==
  /\ ~IsNaN(a) /\ ~IsNaN(b)
  /\ LET Rank(v) == IF v.k = "inf" THEN v.s * (2 * EMax + 2)
                    ELSE IF v.k = "zero" THEN 0
                    ELSE v.s * (v.e + EMax + 1)
     IN Rank(a) < Rank(b)

DGreater(a, b) == DLess(b, a)

\* exp(a)
DExp(a) ==
  IF IsNaN(a) THEN NaN
  ELSE IF a.k = "inf" THEN (IF a.s = 1 THEN PInf ELSE Zero)
  ELSE Norm(1, TimesRounded(1, a))

\* log(a)
DLog(a) ==
  IF IsNaN(a) THEN NaN
  ELSE IF a.k = "zero" THEN NInf
  ELSE IF a.s = -1 THEN NaN
  ELSE IF a.k = "inf" THEN PInf
  ELSE IntToD(a.e)

\* pow(a, p)
DPow(a, p) ==
  IF p.k = "zero" THEN One
  ELSE IF a = One THEN One
  ELSE IF IsNaN(a) \/ IsNaN(p) THEN NaN
  ELSE IF a.k = "zero" THEN (IF p.s = 1 THEN Zero ELSE PInf)
  ELSE IF p.k = "inf"
       THEN (IF a.k = "fin" /\ a.e = 0 THEN One
             ELSE IF (a.k = "inf" \/ a.e > 0) = (p.s = 1) THEN PInf ELSE Zero)
  ELSE LET integral == p.e >= 0
           odd      == p.e = 0
           sign     == IF a.s = 1 THEN 1
                       ELSE IF odd THEN -1 ELSE 1
       IN IF a.s = -1 /\ ~integral THEN NaN
          ELSE IF a.k = "inf" THEN (IF p.s = 1 THEN Inf(sign) ELSE Zero)
          ELSE Norm(sign, TimesRounded(a.e, p))

\* lgamma(a) for a >= 0: log(Gamma(2^e)) rounded to the format.  Gamma(1) =
\* Gamma(2) = 1, Gamma(4) = 6, Gamma(8) = 5040, ...; below 1, Gamma(v) rounds
\* to 1/v.  The evaluator only takes lgamma of r and r + x, which are never
\* negative.
DLgamma(a) ==
  IF IsNaN(a) THEN NaN
  ELSE IF a.k = "zero" THEN PInf
  ELSE IF a.s = -1 THEN NaN
  ELSE IF a.k = "inf" THEN PInf
  ELSE IF a.e < 0 THEN IntToD(-(a.e))
  ELSE IF a.e <= 1 THEN Zero
  ELSE IF a.e = 2 THEN Norm(1, 1)
  ELSE IF a.e = 3 THEN Norm(1, 4)
  ELSE IF a.e = 4 THEN Norm(1, 5)
  ELSE Norm(1, a.e + 2)

-----------------------------------------------------------------------------
(* arma::vec and arma::mat.  A vector is a sequence of doubles; element i  *)
(* of the C++ code (0-based) is v[i + 1].  A matrix keeps its column count *)
(* beside its rows, so that a matrix without columns still has rows.       *)
(* Armadillo's bounds and size checks are enabled (the file does not       *)
(* define ARMA_NO_DEBUG): an access outside a vector, a subvec with a bad  *)
(* range, max() or min() of an empty vector and an elementwise operation   *)
(* on vectors of different sizes throw std::logic_error.                   *)

InBounds(v, i) == 0 <= i /\ i < Len(v)

RECURSIVE VecMaxFrom(_, _, _)
VecMaxFrom(v, i, best) ==
  IF i > Len(v) THEN best
  ELSE VecMaxFrom(v, i + 1, IF DGreater(v[i], best) THEN v[i] ELSE best)

RECURSIVE VecMinFrom(_, _, _)
VecMinFrom(v, i, best) ==
  IF i > Len(v) THEN best
  ELSE VecMinFrom(v, i + 1, IF DLess(v[i], best) THEN v[i] ELSE best)

\* v.max() and v.min() of a non-empty vector
VecMax(v) == VecMaxFrom(v, 2, v[1])
VecMin(v) == VecMinFrom(v, 2, v[1])

\* arma::sum of a vector: two running sums over the even and the odd
\* positions, added at the end.
RECURSIVE AccuFrom(_, _, _, _)
AccuFrom(v, i, acc1, acc2) ==
  IF i > Len(v) THEN DAdd(acc1, acc2)
  ELSE IF i = Len(v) THEN AccuFrom(v, i + 1, DAdd(acc1, v[i]), acc2)
  ELSE AccuFrom(v, i + 2, DAdd(acc1, v[i]), DAdd(acc2, v[i + 1]))

arma_sum(v) == AccuFrom(v, 1, Zero, Zero)

\* Row i of (M * (-1)) * theta.
RECURSIVE DotNegFrom(_, _, _, _)
DotNegFrom(row, theta, j, acc) ==
  IF j > Len(row) THEN acc
  ELSE DotNegFrom(row, theta, j + 1,
                  DAdd(acc, DMul(DMul(row[j], DNeg(One)), theta[j])))

\* base * arma::exp((M * (-1)) * theta), one element per row of M
ScaleByCov(base, M, theta) ==
  [i \in 1..M.n_rows |-> DMul(base, DExp(DotNegFrom(M.rows[i], theta, 1, Zero)))]

-----------------------------------------------------------------------------
(* Outcomes of a call.                                                     *)
(*   kind  "value"        the call returned v                              *)
(*         "logic_error"  an Armadillo check threw std::logic_error        *)
(*         "abort"        the GSL error handler called abort()             *)
(*   work  the numeric stages the call executed before it ended            *)
(*   out   what the call wrote to Rcpp::Rcout                              *)
(*   ws    quadrature workspaces the call allocated, and freed             *)

Stage == {"exp", "matvec", "heuristic", "quadrature", "likelihood", "sum"}

\* The locals of ggomnbd_LL_ind a call leaves behind for inspection.
NoLocals ==
  [r |-> NaN, b |-> NaN, s |-> NaN, vAlpha_i |-> <<>>, vBeta_i |-> <<>>,
   below |-> NaN, above |-> NaN, vIntegrals |-> <<>>, status |-> <<>>,
   vL1 |-> <<>>, vL2 |-> <<>>]

Outcome(kind, v, work, out, alloc, freed) ==
  [kind |-> kind, v |-> v, work |-> work, out |-> out,
   alloc |-> alloc, freed |-> freed, loc |-> NoLocals, globI |-> 0]

Threw(work, out, alloc) == Outcome("logic_error", <<>>, work, out, alloc, 0)

GSL_SUCCESS  == "GSL_SUCCESS"
GSL_EMAXITER == "GSL_EMAXITER"

-----------------------------------------------------------------------------
(* The integration globals (lines 11-14) and the integrand (lines 17-22).  *)

Globals(pX, pAlpha, pBeta, i, r, b, s) ==
  [gpvX |-> pX, gpvAlpha_i |-> pAlpha, gpvBeta_i |-> pBeta, globI |-> i,
   r_glob |-> r, b_glob |-> b, s_glob |-> s, owner |-> 0]

\* The integrand's three element reads are inside their vectors.
IntegrandReadsOk(G) ==
  /\ InBounds(G.gpvAlpha_i, G.globI)
  /\ InBounds(G.gpvX, G.globI)
  /\ InBounds(G.gpvBeta_i, G.globI)

\* What one evaluation of the integrand reads from the globals.
IntegrandReads(G) ==
  [r |-> G.r_glob, b |-> G.b_glob, s |-> G.s_glob,
   alpha |-> G.gpvAlpha_i[G.globI + 1], beta |-> G.gpvBeta_i[G.globI + 1],
   x |-> G.gpvX[G.globI + 1]]

integrationFunction(x, G) ==
  LET rd == IntegrandReads(G)
  IN DMul(DMul(DPow(DAdd(x, rd.alpha), DNeg(DAdd(rd.r, rd.x))),
               DPow(DSub(DAdd(rd.beta, DExp(DMul(rd.b, x))), One),
                    DNeg(DAdd(rd.s, One)))),
          DExp(DMul(rd.b, x)))

-----------------------------------------------------------------------------
(* gsl_integration_qags (line 71).  The library's adaptive 21-point        *)
(* Gauss-Kronrod rule is reduced to its centre node with the whole weight: *)
(* one evaluation of the integrand at (a + b) / 2, times (b - a).  Whether *)
(* the refinement of a customer's integral exhausts the 1000 subintervals  *)
(* depends on the integrand; the model takes the set of such customers as  *)
(* part of the input.  An interval of length zero has error estimate 0 and *)
(* always succeeds.                                                        *)

qags_node(a, b) == DMul(Half, DAdd(a, b))

qags_result(a, b, fval) == DMul(DSub(b, a), fval)

qags_status(a, b, i, hard) ==
  IF a # b /\ i \in hard THEN GSL_EMAXITER ELSE GSL_SUCCESS

-----------------------------------------------------------------------------
(* ggomnbd_LL_ind (lines 27-97), run to its end without interruption.      *)

\* pow(10,200) (line 57), a finite value one binade below the largest.
Pow10_200 == Norm(1, EMax - 1)

\* The product both divergence bounds share (lines 49-50): tBase, alpha and
\* x go into the first power, beta and tIn into the second, tOut into the
\* trailing factor.
BoundProxy(r, b, s, tBase, alpha, x, beta, tIn, tOut) ==
  DMul(DMul(DPow(DAdd(tBase, alpha), DNeg(DAdd(r, x))),
            DPow(DSub(DAdd(beta, DExp(DMul(b, tIn))), One), DNeg(DAdd(s, One)))),
       DExp(DMul(b, tOut)))

\* line 49
below(r, b, s, vAlpha_i, vBeta_i, vX, vT_x) ==
  BoundProxy(r, b, s, VecMax(vT_x), VecMax(vAlpha_i), VecMax(vX),
             VecMax(vBeta_i), VecMax(vT_x), VecMin(vT_x))

\* line 50 with the minimum of x_i, as the complement of line 49 would have it
above_minX(r, b, s, vAlpha_i, vBeta_i, vX, vT_x) ==
  BoundProxy(r, b, s, VecMin(vT_x), VecMin(vAlpha_i), VecMin(vX),
             VecMin(vBeta_i), VecMin(vT_x), VecMax(vT_x))

\* line 50
above(r, b, s, vAlpha_i, vBeta_i, vX, vT_x) ==
  BoundProxy(r, b, s, VecMin(vT_x), VecMin(vAlpha_i), VecMax(vX),
             VecMin(vBeta_i), VecMin(vT_x), VecMax(vT_x))

\* lines 54-58: the two messages written to Rcpp::Rcout
LowerMsg == "Log of the integral might diverge; Lower Boundary = 0"
UpperMsg == "Log of the integral might diverge; Upper Boundary ="

HeuristicOut(lo, up) ==
  (IF lo = Zero THEN <<LowerMsg>> ELSE <<>>)
    \o (IF DGreater(up, Pow10_200) THEN <<UpperMsg>> ELSE <<>>)

\* The loop of lines 70-73 from customer i on: [kind, v, status, i, entered].
RECURSIVE QuadLoop(_, _, _, _, _, _, _, _, _, _, _, _)
QuadLoop(r, b, s, vAlpha_i, vBeta_i, vX, vT_x, vT_cal, env, i, acc, sts) ==
  LET G == Globals(vX, vAlpha_i, vBeta_i, i, r, b, s)
  IN IF ~(i < Len(vX))
     THEN [kind |-> "ok", v |-> acc, status |-> sts, i |-> i]
     ELSE IF ~InBounds(vT_x, i) \/ ~InBounds(vT_cal, i) \/ ~IntegrandReadsOk(G)
     THEN [kind |-> "logic_error", v |-> acc, status |-> sts, i |-> i]
     ELSE LET a   == vT_x[i + 1]
              bb  == vT_cal[i + 1]
              res == qags_result(a, bb, integrationFunction(qags_node(a, bb), G))
              st  == qags_status(a, bb, i + 1, env.hard)
          IN IF st = GSL_EMAXITER /\ env.handler = "abort"
             THEN [kind |-> "abort", v |-> acc, status |-> Append(sts, st), i |-> i]
             ELSE QuadLoop(r, b, s, vAlpha_i, vBeta_i, vX, vT_x, vT_cal, env,
                           i + 1, Append(acc, res), Append(sts, st))

\* lines 80-85: lgamma(r + x_i) - lgamma(r)
GammaTerm(r, x) == DSub(DLgamma(DAdd(r, x)), DLgamma(r))

\* line 88, element i
L1(r, b, s, alpha, beta, x, tcal) ==
  DAdd(GammaTerm(r, x),
       DAdd(DAdd(DMul(r, DSub(DLog(alpha), DLog(DAdd(alpha, tcal)))),
                 DMul(x, DSub(Zero, DLog(DAdd(alpha, tcal))))),
            DMul(s, DSub(DLog(beta),
                         DLog(DAdd(DSub(beta, One), DExp(DMul(b, tcal))))))))

\* line 89, element i
L2(r, b, s, alpha, beta, x, integral) ==
  DAdd(GammaTerm(r, x),
       DAdd(DAdd(DAdd(DAdd(DLog(b), DMul(r, DLog(alpha))), DLog(s)),
                 DMul(s, DLog(beta))),
            DLog(integral)))

\* line 94, element i
LLCombine(l1, l2) == DLog(DAdd(DExp(l1), DExp(l2)))

ggomnbd_LL_ind(r, b, s, vAlpha_i, vBeta_i, vX, vT_x, vT_cal, env, work0) ==
  LET n    == Len(vX)
      loc0 == [NoLocals EXCEPT !.r = r, !.b = b, !.s = s,
                               !.vAlpha_i = vAlpha_i, !.vBeta_i = vBeta_i]
  IN IF Len(vT_x) = 0 \/ Len(vAlpha_i) = 0 \/ n = 0 \/ Len(vBeta_i) = 0
     THEN [Threw(work0, <<>>, 0) EXCEPT !.loc = loc0, !.globI = 0]
     ELSE
     LET lo   == below(r, b, s, vAlpha_i, vBeta_i, vX, vT_x)
         up   == above(r, b, s, vAlpha_i, vBeta_i, vX, vT_x)
         out  == HeuristicOut(lo, up)
         loc1 == [loc0 EXCEPT !.below = lo, !.above = up]
         loop == QuadLoop(r, b, s, vAlpha_i, vBeta_i, vX, vT_x, vT_cal, env,
                          0, <<>>, <<>>)
         loc2 == [loc1 EXCEPT !.vIntegrals = loop.v, !.status = loop.status]
         w1   == work0 \cup {"heuristic"}
         w2   == IF loop.i > 0 \/ (InBounds(vT_x, 0) /\ InBounds(vT_cal, 0))
                 THEN w1 \cup {"quadrature"} ELSE w1
     IN IF loop.kind # "ok"
        THEN [Outcome(loop.kind, <<>>, w2, out, 1, 0)
                EXCEPT !.loc = loc2, !.globI = loop.i]
        ELSE IF Len(vAlpha_i) # n \/ Len(vT_cal) # n \/ Len(vBeta_i) # n
        THEN [Threw(w2 \cup {"likelihood"}, out, 1)
                EXCEPT !.loc = loc2, !.globI = loop.i]
        ELSE
        LET vL1 == [i \in 1..n |->
                      L1(r, b, s, vAlpha_i[i], vBeta_i[i], vX[i], vT_cal[i])]
            vL2 == [i \in 1..n |->
                      L2(r, b, s, vAlpha_i[i], vBeta_i[i], vX[i], loop.v[i])]
            vLL == [i \in 1..n |-> LLCombine(vL1[i], vL2[i])]
        IN [Outcome("value", vLL, w2 \cup {"likelihood"}, out, 1, 0)
              EXCEPT !.loc = [loc2 EXCEPT !.vL1 = vL1, !.vL2 = vL2],
                     !.globI = loop.i]

-----------------------------------------------------------------------------
(* The exported entry points.                                              *)

\* const int no_model_params = 5 (line 243)
no_model_params == 5

\* lines 106-110 and 237-241: the five element reads, each checked.  The
\* exponentials are taken one declaration at a time, so a vector holding some
\* but not all five entries is exponentiated before the failing read.
ReadModelParams(vParams) ==
  IF Len(vParams) >= no_model_params
  THEN [ok |-> TRUE, work |-> {"exp"},
        r |-> DExp(vParams[1]), alpha_0 |-> DExp(vParams[2]),
        b |-> DExp(vParams[3]), s |-> DExp(vParams[4]),
        beta_0 |-> DExp(vParams[5])]
  ELSE [ok |-> FALSE, work |-> IF Len(vParams) >= 1 THEN {"exp"} ELSE {},
        r |-> NaN, alpha_0 |-> NaN, b |-> NaN, s |-> NaN, beta_0 |-> NaN]

\* lines 101-128
ggomnbd_nocov_LL_ind(vLogparams, vX, vT_x, vT_cal, env) ==
  LET p == ReadModelParams(vLogparams)
      n == Len(vX)
  IN IF ~p.ok THEN Threw(p.work, <<>>, 0)
     ELSE ggomnbd_LL_ind(p.r, p.b, p.s, [i \in 1..n |-> p.alpha_0],
                         [i \in 1..n |-> p.beta_0], vX, vT_x, vT_cal, env,
                         p.work)

\* vParams.subvec(first, last) (lines 247-248) passes Armadillo's check
SubvecOk(v, first, last) == ~(first > last \/ last >= Len(v))

\* lines 223-274
ggomnbd_staticcov_LL_ind(vParams, vX, vT_x, vT_cal, mCov_life, mCov_trans, env) ==
  LET p             == ReadModelParams(vParams)
      num_cov_life  == mCov_life.n_cols
      num_cov_trans == mCov_trans.n_cols
      lifeFirst     == no_model_params
      lifeLast      == no_model_params + num_cov_life - 1
      transFirst    == no_model_params + num_cov_life
      transLast     == no_model_params + num_cov_life + num_cov_trans - 1
  IN IF ~p.ok THEN Threw(p.work, <<>>, 0)
     ELSE IF ~SubvecOk(vParams, lifeFirst, lifeLast)
             \/ ~SubvecOk(vParams, transFirst, transLast)
     THEN Threw(p.work, <<>>, 0)
     ELSE LET vLife_params  == SubSeq(vParams, lifeFirst + 1, lifeLast + 1)
              vTrans_params == SubSeq(vParams, transFirst + 1, transLast + 1)
              vAlpha_i == ScaleByCov(p.alpha_0, mCov_trans, vTrans_params)
              vBeta_i  == ScaleByCov(p.beta_0, mCov_life, vLife_params)
          IN ggomnbd_LL_ind(p.r, p.b, p.s, vAlpha_i, vBeta_i, vX, vT_x, vT_cal,
                            env, p.work \cup {"matvec"})

\* lines 180 and 337 without the negation
Reduce_unnegated(ind) ==
  IF ind.kind # "value" THEN ind
  ELSE [ind EXCEPT !.v = arma_sum(ind.v), !.work = @ \cup {"sum"}]

\* lines 180 and 337: -arma::sum(vLL), once the individual call has returned
Reduce(ind) ==
  IF ind.kind # "value" THEN ind
  ELSE [ind EXCEPT !.v = DNeg(arma_sum(ind.v)), !.work = @ \cup {"sum"}]

\* lines 165-181
ggomnbd_nocov_LL_sum(vLogparams, vX, vT_x, vT_cal, env) ==
  Reduce(ggomnbd_nocov_LL_ind(vLogparams, vX, vT_x, vT_cal, env))

\* lines 327-338
ggomnbd_staticcov_LL_sum(vParams, vX, vT_x, vT_cal, mCov_life, mCov_trans, env) ==
  Reduce(ggomnbd_staticcov_LL_ind(vParams, vX, vT_x, vT_cal, mCov_life,
                                  mCov_trans, env))

-----------------------------------------------------------------------------
(* State.                                                                  *)

VARIABLES
  input,      \* the arguments the caller holds: vParams, vX, vT_x, vT_cal,
              \* mCov_life, mCov_trans, and hard, the customers whose integral
              \* exhausts the subinterval limit
  handler,    \* the installed GSL error handler: "abort" (GSL's default) or
              \* "off" (gsl_set_error_handler_off, as RcppGSL installs); it
              \* is only ever consulted when some integral of the input is hard
  res,        \* per entry point: the outcome of its call, or NoCall
  live,       \* gsl_integration_workspace objects allocated and not freed
  crashed,    \* the process was ended by abort()
  glob,       \* lines 11-14: gpvX, gpvAlpha_i, gpvBeta_i, globI, r_glob, ...
  pc,         \* interleaved invocations of ggomnbd_LL_ind: position
  inv,        \*   the arguments of each invocation
  lcl         \*   its locals

vars == <<input, handler, res, live, crashed, glob, pc, inv, lcl>>

EntryPoints == {"nocov_ind", "nocov_sum", "staticcov_ind", "staticcov_sum"}

NoCall == Outcome("none", <<>>, {}, <<>>, 0, 0)

\* The globals before the first call (lines 11-14: null pointers and zeros).
Glob0 == Globals(<<>>, <<>>, <<>>, 0, Zero, Zero, Zero)

Env == [hard |-> input.hard, handler |-> handler]

\* vLogparams of the no-covariate calls: the five model parameters of vParams
vLogparams == SubSeq(input.vParams, 1, IMin(no_model_params, Len(input.vParams)))

\* The entry point ep applied to the caller's arguments.
Invoke(ep) ==
  CASE ep = "nocov_ind" ->
         ggomnbd_nocov_LL_ind(vLogparams, input.vX, input.vT_x, input.vT_cal, Env)
    [] ep = "nocov_sum" ->
         ggomnbd_nocov_LL_sum(vLogparams, input.vX, input.vT_x, input.vT_cal, Env)
    [] ep = "staticcov_ind" ->
         ggomnbd_staticcov_LL_ind(input.vParams, input.vX, input.vT_x,
                                  input.vT_cal, input.mCov_life,
                                  input.mCov_trans, Env)
    [] ep = "staticcov_sum" ->
         ggomnbd_staticcov_LL_sum(input.vParams, input.vX, input.vT_x,
                                  input.vT_cal, input.mCov_life,
                                  input.mCov_trans, Env)

\* lines 39-46 and 70: what a call that reached ggomnbd_LL_ind leaves in the
\* globals.
GlobalsAfter(o) ==
  IF o.loc # NoLocals
  THEN Globals(input.vX, o.loc.vAlpha_i, o.loc.vBeta_i, o.globI,
               o.loc.r, o.loc.b, o.loc.s)
  ELSE glob

\* One call of an entry point, from entry to return (or throw, or abort).
\* The caller evaluates each entry point once on its arguments.
Call(ep) ==
  /\ ~crashed
  /\ res[ep] = NoCall
  /\ \E o \in {Invoke(ep)} :
        /\ res' = [res EXCEPT ![ep] = o]
        /\ live' = live + o.alloc - o.freed
        /\ crashed' = (o.kind = "abort")
        /\ glob' = GlobalsAfter(o)
  /\ UNCHANGED <<input, handler, pc, inv, lcl>>

CallNocovInd     == Call("nocov_ind")
CallNocovSum     == Call("nocov_sum")
CallStaticcovInd == Call("staticcov_ind")
CallStaticcovSum == Call("staticcov_sum")

Next ==
  \/ CallNocovInd
  \/ CallNocovSum
  \/ CallStaticcovInd
  \/ CallStaticcovSum

-----------------------------------------------------------------------------
(* The inputs explored.                                                    *)

\* Most columns of a covariate matrix.
MaxCols == 1

MinusOne == DNeg(One)

\* Entries of the parameter vector: the log-scale model parameters (1/2 and 2
\* after exponentiation) and the covariate coefficients.
LogVals   == {MinusOne, One}
ThetaVals == {Zero, One}

\* One customer: <<x, t_x, t_cal>>.
CustVals == {<<One, One, One>>, <<Two, One, Four>>, <<Zero, Zero, Two>>}

\* Batches of 1..MaxN customers, alternating between two kinds of customer.
Batches ==
  { [i \in 1..n |-> pair[((i - 1) % 2) + 1]] :
      pair \in [1..2 -> CustVals], n \in 1..MaxN }

\* An n x k covariate matrix: entries of alternating sign, or all 2.
CovKinds == {"alt", "const"}

CovMat(n, k, kind) ==
  [n_rows |-> n, n_cols |-> k,
   rows |-> [i \in 1..n |-> [j \in 1..k |->
               IF kind = "const" THEN Two
               ELSE IF (i + j) % 2 = 0 THEN One ELSE MinusOne]]]

MkInput(p5, thetaLife, thetaTrans, batch, covLife, covTrans, hard) ==
  [vParams    |-> p5 \o thetaLife \o thetaTrans,
   vX         |-> [i \in 1..Len(batch) |-> batch[i][1]],
   vT_x       |-> [i \in 1..Len(batch) |-> batch[i][2]],
   vT_cal     |-> [i \in 1..Len(batch) |-> batch[i][3]],
   mCov_life  |-> covLife,
   mCov_trans |-> covTrans,
   hard       |-> hard]

\* Well-formed inputs over all model parameters, one covariate column each;
\* no integral, or that of the first customer, exhausts the subintervals.
NumericInputs ==
  { MkInput(p5, <<One>>, <<One>>, batch,
            CovMat(Len(batch), 1, "alt"), CovMat(Len(batch), 1, "alt"), hard) :
      p5 \in [1..no_model_params -> LogVals],
      batch \in Batches, hard \in {{}, {1}} }

\* Well-formed inputs over the covariate matrices (0..MaxCols columns each)
\* and coefficients, every coefficient of a matrix the same.
CovInputs ==
  { MkInput(<<One, ab[1], MinusOne, One, ab[2]>>,
            [j \in 1..kl |-> th[1]], [j \in 1..kt |-> th[2]], batch,
            CovMat(Len(batch), kl, kind), CovMat(Len(batch), kt, kind), {}) :
      ab \in {<<MinusOne, One>>, <<One, MinusOne>>},
      th \in {<<Zero, Zero>>, <<One, One>>, <<Zero, One>>},
      batch \in Batches, kl \in 0..MaxCols, kt \in 0..MaxCols,
      kind \in CovKinds }

\* Ill-formed inputs: a well-formed one with one length changed by one.
Deviations ==
  {"params_short", "params_long", "x_short", "x_long", "tx_short", "tx_long",
   "tcal_short", "tcal_long", "life_rows_short", "life_rows_long",
   "trans_rows_short", "trans_rows_long"}

Front(v)  == SubSeq(v, 1, Len(v) - 1)
Longer(v) == Append(v, Two)

Reshape(M, n) == CovMat(n, M.n_cols, "alt")

Deviate(inp, d) ==
  CASE d = "params_short"     -> [inp EXCEPT !.vParams = Front(@)]
    [] d = "params_long"      -> [inp EXCEPT !.vParams = Longer(@)]
    [] d = "x_short"          -> [inp EXCEPT !.vX = Front(@)]
    [] d = "x_long"           -> [inp EXCEPT !.vX = Longer(@)]
    [] d = "tx_short"         -> [inp EXCEPT !.vT_x = Front(@)]
    [] d = "tx_long"          -> [inp EXCEPT !.vT_x = Longer(@)]
    [] d = "tcal_short"       -> [inp EXCEPT !.vT_cal = Front(@)]
    [] d = "tcal_long"        -> [inp EXCEPT !.vT_cal = Longer(@)]
    [] d = "life_rows_short"  -> [inp EXCEPT !.mCov_life = Reshape(@, @.n_rows - 1)]
    [] d = "life_rows_long"   -> [inp EXCEPT !.mCov_life = Reshape(@, @.n_rows + 1)]
    [] d = "trans_rows_short" -> [inp EXCEPT !.mCov_trans = Reshape(@, @.n_rows - 1)]
    [] d = "trans_rows_long"  -> [inp EXCEPT !.mCov_trans = Reshape(@, @.n_rows + 1)]

ShapeBase ==
  UNION { { MkInput(<<One, One, MinusOne, One, One>>, thL, thT, batch,
                    CovMat(Len(batch), kl, "alt"), CovMat(Len(batch), kt, "alt"),
                    {}) :
              thL \in [1..kl -> {One}], thT \in [1..kt -> {One}] } :
          batch \in {b \in Batches : \A i \in 1..Len(b) : b[i] = <<Two, One, Four>>},
          kl \in 0..MaxCols, kt \in 0..MaxCols }

ShapeInputs == { Deviate(inp, d) : inp \in ShapeBase, d \in Deviations }

Inputs == NumericInputs \cup CovInputs \cup ShapeInputs

\* What a well-formed input satisfies (spec section 3).
n_of(inp)  == Len(inp.vX)
k_life(inp)  == inp.mCov_life.n_cols
k_trans(inp) == inp.mCov_trans.n_cols

ParamsLengthOk(inp) ==
  Len(inp.vParams) = no_model_params + k_life(inp) + k_trans(inp)

DimensionsOk(inp) ==
  /\ Len(inp.vT_x) = n_of(inp)
  /\ Len(inp.vT_cal) = n_of(inp)
  /\ inp.mCov_life.n_rows = n_of(inp)
  /\ inp.mCov_trans.n_rows = n_of(inp)

WellFormed(inp) == ParamsLengthOk(inp) /\ DimensionsOk(inp) /\ n_of(inp) >= 1

-----------------------------------------------------------------------------
(* Two invocations of ggomnbd_LL_ind interleaved statement by statement,   *)
(* as an optimizer evaluating candidates on two threads would run them.    *)
(* Each thread holds its own arguments and locals; the globals of lines    *)
(* 11-14 are the only shared state.  glob.owner is the invocation whose    *)
(* vectors the three pointers address (0: none yet).                       *)

Threads == {1, 2}

\* An element of vIntegrals that was never assigned (arma::vec(n) does not
\* initialise its memory).
Uninit == [k |-> "uninit", s |-> 0, e |-> 0]

\* What such an element may read as.
Garbage == {Zero, One, NaN}

NoReads == [r |-> NaN, b |-> NaN, s |-> NaN, alpha |-> NaN, beta |-> NaN, x |-> NaN]

Lcl0 ==
  [n |-> 0, a |-> NaN, b |-> NaN, cust |-> 0, fval |-> NaN, reads |-> NoReads,
   readIdx |-> 0, vIntegrals |-> <<>>, out |-> <<>>, result |-> <<>>]

\* The arguments ggomnbd_nocov_LL_ind passes down (lines 106-126).
NocovArgs(p5, batch) ==
  LET p == ReadModelParams(p5)
      n == Len(batch)
  IN [r |-> p.r, b |-> p.b, s |-> p.s,
      vAlpha_i |-> [i \in 1..n |-> p.alpha_0],
      vBeta_i  |-> [i \in 1..n |-> p.beta_0],
      vX     |-> [i \in 1..n |-> batch[i][1]],
      vT_x   |-> [i \in 1..n |-> batch[i][2]],
      vT_cal |-> [i \in 1..n |-> batch[i][3]]]

\* The two invocations differ in their parameters, and may differ in their
\* customers.
ParBatches == {b \in Batches : b[1] = <<Two, One, Four>>}

ParArgs(t) ==
  { NocovArgs(IF t = 1 THEN <<One, One, MinusOne, One, One>>
                       ELSE <<MinusOne, MinusOne, MinusOne, One, MinusOne>>,
              batch) : batch \in ParBatches }

Ended == {"done", "thrown", "undefined"}

\* The vectors behind the global pointers are gone: the invocation that
\* set them has returned and its vAlpha_i and vBeta_i are destroyed.
Dangling == glob.owner # 0 /\ pc[glob.owner] \in Ended

\* lines 36-68: n, the globals, the divergence heuristic, the workspace
Enter(t) ==
  /\ pc[t] = "idle"
  /\ LET a == inv[t]
     IN /\ glob' = [Globals(a.vX, a.vAlpha_i, a.vBeta_i, glob.globI, a.r, a.b, a.s)
                      EXCEPT !.owner = t]
        /\ lcl' = [lcl EXCEPT ![t] =
                     [@ EXCEPT !.n = Len(a.vX),
                               !.vIntegrals = [i \in 1..Len(a.vX) |-> Uninit],
                               !.out = HeuristicOut(
                                  below(a.r, a.b, a.s, a.vAlpha_i, a.vBeta_i, a.vX, a.vT_x),
                                  above(a.r, a.b, a.s, a.vAlpha_i, a.vBeta_i, a.vX, a.vT_x))]]
  /\ live' = live + 1
  /\ pc' = [pc EXCEPT ![t] = "loop_init"]
  /\ UNCHANGED <<input, handler, res, crashed, inv>>

\* line 70: globI = 0
LoopInit(t) ==
  /\ pc[t] = "loop_init"
  /\ glob' = [glob EXCEPT !.globI = 0]
  /\ pc' = [pc EXCEPT ![t] = "loop_test"]
  /\ UNCHANGED <<input, handler, res, live, crashed, inv, lcl>>

\* line 70: globI < n
LoopTest(t) ==
  /\ pc[t] = "loop_test"
  /\ pc' = [pc EXCEPT ![t] = IF glob.globI < lcl[t].n THEN "qags_call" ELSE "post"]
  /\ UNCHANGED <<input, handler, res, live, crashed, glob, inv, lcl>>

\* line 71: the arguments vT_x(globI), vT_cal(globI) of the call
QagsCall(t) ==
  /\ pc[t] = "qags_call"
  /\ IF InBounds(inv[t].vT_x, glob.globI) /\ InBounds(inv[t].vT_cal, glob.globI)
     THEN /\ lcl' = [lcl EXCEPT ![t] =
                       [@ EXCEPT !.a = inv[t].vT_x[glob.globI + 1],
                                 !.b = inv[t].vT_cal[glob.globI + 1],
                                 !.cust = glob.globI]]
          /\ pc' = [pc EXCEPT ![t] = "integrand"]
     ELSE /\ pc' = [pc EXCEPT ![t] = "thrown"]
          /\ UNCHANGED lcl
  /\ UNCHANGED <<input, handler, res, live, crashed, glob, inv>>

\* lines 17-22, called back by the quadrature
IntegrandEval(t) ==
  /\ pc[t] = "integrand"
  /\ IF Dangling
     THEN /\ pc' = [pc EXCEPT ![t] = "undefined"]
          /\ UNCHANGED lcl
     ELSE IF ~IntegrandReadsOk(glob)
     THEN /\ pc' = [pc EXCEPT ![t] = "thrown"]
          /\ UNCHANGED lcl
     ELSE /\ lcl' = [lcl EXCEPT ![t] =
                       [@ EXCEPT !.fval = integrationFunction(
                                            qags_node(lcl[t].a, lcl[t].b), glob),
                                 !.reads = IntegrandReads(glob),
                                 !.readIdx = glob.globI]]
          /\ pc' = [pc EXCEPT ![t] = "store"]
  /\ UNCHANGED <<input, handler, res, live, crashed, glob, inv>>

\* line 72: vIntegrals(globI) = res
Store(t) ==
  /\ pc[t] = "store"
  /\ IF glob.globI < lcl[t].n
     THEN /\ lcl' = [lcl EXCEPT ![t] =
                       [@ EXCEPT !.vIntegrals[glob.globI + 1] =
                                    qags_result(lcl[t].a, lcl[t].b, lcl[t].fval),
                                 !.a = NaN, !.b = NaN, !.fval = NaN,
                                 !.reads = NoReads, !.readIdx = 0, !.cust = 0]]
          /\ pc' = [pc EXCEPT ![t] = "incr"]
     ELSE /\ pc' = [pc EXCEPT ![t] = "thrown"]
          /\ UNCHANGED lcl
  /\ UNCHANGED <<input, handler, res, live, crashed, glob, inv>>

\* line 70: globI++
Incr(t) ==
  /\ pc[t] = "incr"
  /\ glob' = [glob EXCEPT !.globI = @ + 1]
  /\ pc' = [pc EXCEPT ![t] = "loop_test"]
  /\ UNCHANGED <<input, handler, res, live, crashed, inv, lcl>>

\* lines 75-96: the likelihood from the thread's own arguments and integrals
Post(t) ==
  /\ pc[t] = "post"
  /\ \E g \in {h \in [1..lcl[t].n -> Garbage] :
                 \A i \in 1..lcl[t].n :
                   lcl[t].vIntegrals[i] # Uninit => h[i] = Zero} :
       LET a    == inv[t]
           vInt == [i \in 1..lcl[t].n |->
                      IF lcl[t].vIntegrals[i] = Uninit THEN g[i]
                      ELSE lcl[t].vIntegrals[i]]
       IN lcl' = [lcl EXCEPT ![t].result =
                    [i \in 1..lcl[t].n |->
                       LLCombine(L1(a.r, a.b, a.s, a.vAlpha_i[i], a.vBeta_i[i],
                                    a.vX[i], a.vT_cal[i]),
                                 L2(a.r, a.b, a.s, a.vAlpha_i[i], a.vBeta_i[i],
                                    a.vX[i], vInt[i]))]]
  /\ pc' = [pc EXCEPT ![t] = "done"]
  /\ UNCHANGED <<input, handler, res, live, crashed, glob, inv>>

NextPar ==
  \E t \in Threads :
    \/ Enter(t)
    \/ LoopInit(t)
    \/ LoopTest(t)
    \/ QagsCall(t)
    \/ IntegrandEval(t)
    \/ Store(t)
    \/ Incr(t)
    \/ Post(t)

-----------------------------------------------------------------------------

Init ==
  /\ input \in Inputs
  /\ handler \in (IF input.hard = {} THEN {"off"} ELSE {"abort", "off"})
  /\ res = [ep \in EntryPoints |-> NoCall]
  /\ live = 0
  /\ crashed = FALSE
  /\ glob = Glob0
  /\ pc = [t \in Threads |-> "idle"]
  /\ inv = <<>>
  /\ lcl = <<>>

Spec == Init /\ [][Next]_vars

\* The caller of the interleaved invocations holds no entry-point arguments.
NoInput == MkInput(<<>>, <<>>, <<>>, <<>>, CovMat(0, 0, "alt"), CovMat(0, 0, "alt"), {})

InitPar ==
  /\ input = NoInput
  /\ handler = "off"
  /\ res = [ep \in EntryPoints |-> NoCall]
  /\ live = 0
  /\ crashed = FALSE
  /\ glob = Glob0
  /\ pc = [t \in Threads |-> "idle"]
  /\ inv \in {f \in [Threads -> UNION {ParArgs(t) : t \in Threads}] :
                \A t \in Threads : f[t] \in ParArgs(t)}
  /\ lcl = [t \in Threads |-> Lcl0]

SpecPar == InitPar /\ [][NextPar]_vars

-----------------------------------------------------------------------------
(* Properties.                                                             *)

IndEntryPoints == {"nocov_ind", "staticcov_ind"}
StaticEntryPoints == {"staticcov_ind", "staticcov_sum"}

Called(ep)   == res[ep] # NoCall
Returned(ep) == res[ep].kind = "value"

\* std::logic_error is the error a caller sees for a rejected argument.
InvalidArgument(o) == o.kind = "logic_error"

Range(v) == {v[i] : i \in 1..Len(v)}

\* C1: a static-covariate call whose parameter vector is not 5 + k_life +
\* k_trans long ends in InvalidArgument, before any numeric stage has run.
C1_ParamLengthRejected ==
  \A ep \in StaticEntryPoints :
    (Called(ep) /\ ~ParamsLengthOk(input)) =>
      (InvalidArgument(res[ep]) /\ res[ep].work = {})

\* The dimensions entry point ep reads agree with the number of customers.
DimensionsOkFor(ep) ==
  /\ Len(input.vT_x) = n_of(input)
  /\ Len(input.vT_cal) = n_of(input)
  /\ ep \in StaticEntryPoints =>
       /\ input.mCov_life.n_rows = n_of(input)
       /\ input.mCov_trans.n_rows = n_of(input)

\* C2: every entry point rejects a t_x, t_cal or covariate row count that
\* differs from the number of customers with InvalidArgument, without
\* entering the quadrature loop and without returning a result.
C2_DimensionMismatchRejected ==
  \A ep \in EntryPoints :
    (Called(ep) /\ ~DimensionsOkFor(ep)) =>
      (InvalidArgument(res[ep]) /\ "quadrature" \notin res[ep].work)

\* What invocation t's integrand must read while it integrates for the
\* customer whose interval it passed to the quadrature.
OwnReads(t) ==
  [r |-> inv[t].r, b |-> inv[t].b, s |-> inv[t].s,
   alpha |-> inv[t].vAlpha_i[lcl[t].cust + 1],
   beta  |-> inv[t].vBeta_i[lcl[t].cust + 1],
   x     |-> inv[t].vX[lcl[t].cust + 1]]

\* The vector invocation t returns when nothing else runs.
Alone(t) ==
  ggomnbd_LL_ind(inv[t].r, inv[t].b, inv[t].s, inv[t].vAlpha_i, inv[t].vBeta_i,
                 inv[t].vX, inv[t].vT_x, inv[t].vT_cal,
                 [hard |-> {}, handler |-> "off"], {}).v

\* C3: interleaved invocations do not disturb each other: every integrand
\* evaluation reads the parameters and the customer of its own invocation,
\* and every invocation returns the vector it returns when run alone.
C3_ParallelSafe ==
  \A t \in Threads :
    /\ pc[t] = "store" => lcl[t].reads = OwnReads(t)
    /\ pc[t] \in Ended => (pc[t] = "done" /\ lcl[t].result = Alone(t))

SumOf(ep) == IF ep = "nocov_ind" THEN "nocov_sum" ELSE "staticcov_sum"

AllThetaZero(inp) ==
  \A j \in (no_model_params + 1)..Len(inp.vParams) : inp.vParams[j] = Zero

\* C5: with every covariate coefficient zero, the static-covariate call uses
\* alpha_i = alpha_0 and beta_i = beta_0 for every customer and returns the
\* vector of the no-covariate call on the same five model parameters.
C5_CovariateCollapse ==
  (WellFormed(input) /\ AllThetaZero(input)
     /\ Called("nocov_ind") /\ Called("staticcov_ind")) =>
    /\ res["staticcov_ind"].kind = res["nocov_ind"].kind
    /\ res["staticcov_ind"].loc.vAlpha_i = res["nocov_ind"].loc.vAlpha_i
    /\ res["staticcov_ind"].loc.vBeta_i = res["nocov_ind"].loc.vBeta_i
    /\ res["staticcov_ind"].v = res["nocov_ind"].v

\* C5 restricted to covariate matrices with at least one column each.
C5_CollapseWithColumns ==
  (k_life(input) >= 1 /\ k_trans(input) >= 1) => C5_CovariateCollapse

\* C5, the restricted case reached: both calls returned for two customers.
C5_CollapseReached ==
  /\ WellFormed(input) /\ AllThetaZero(input)
  /\ Returned("nocov_ind") /\ Returned("staticcov_ind")
  /\ Len(res["nocov_ind"].v) >= 2

\* Some customer's quadrature ended with GSL_EMAXITER during the call.
HitLimit(o) == GSL_EMAXITER \in Range(o.loc.status)

\* C6: when a customer's quadrature exhausts the subinterval limit, the call
\* still returns, with an integral stored for every customer, and has
\* written a warning about the non-convergence.
C6_NonConvergenceReported ==
  \A ep \in EntryPoints :
    (Called(ep) /\ WellFormed(input) /\ HitLimit(res[ep])) =>
      /\ Returned(ep)
      /\ Len(res[ep].loc.vIntegrals) = n_of(input)
      /\ \E m \in Range(res[ep].out) : m \notin {LowerMsg, UpperMsg}

\* C7: the combination of L1_i and L2_i neither overflows nor underflows:
\* finite L1_i and L2_i give a finite LL_i.
C7_StableCombination ==
  \A ep \in IndEntryPoints :
    Returned(ep) =>
      \A i \in 1..Len(res[ep].v) :
        (IsFinite(res[ep].loc.vL1[i]) /\ IsFinite(res[ep].loc.vL2[i])) =>
          IsFinite(res[ep].v[i])

\* C8: a customer with t_x = t_cal has Integral_i = 0 and LL_i = L1_i
\* whenever L1_i is finite.
C8_BoundaryCase ==
  \A ep \in IndEntryPoints :
    (Returned(ep) /\ WellFormed(input)) =>
      \A i \in 1..Len(res[ep].v) :
        input.vT_x[i] = input.vT_cal[i] =>
          /\ res[ep].loc.vIntegrals[i] = Zero
          /\ IsFinite(res[ep].loc.vL1[i]) => res[ep].v[i] = res[ep].loc.vL1[i]

IsMaxOf(v, m) == m \in Range(v) /\ \A i \in 1..Len(v) : ~DGreater(v[i], m)
IsMinOf(v, m) == m \in Range(v) /\ \A i \in 1..Len(v) : ~DLess(v[i], m)

MaxOf(v) == CHOOSE m \in Range(v) : IsMaxOf(v, m)
MinOf(v) == CHOOSE m \in Range(v) : IsMinOf(v, m)

ReachedHeuristic(ep) == Called(ep) /\ "heuristic" \in res[ep].work

\* The zero test is applied to the lower bound, the > 1e200 test to the upper.
TestsApplied(o) ==
  /\ LowerMsg \in Range(o.out) <=> o.loc.below = Zero
  /\ UpperMsg \in Range(o.out) <=> DGreater(o.loc.above, Pow10_200)

\* C9 as stated: the lower bound is built from the maxima of t_x, alpha_i and
\* x_i and the minima of t_x and beta_i, the upper bound from the
\* complementary extreme of each (t_x inside the second power at either of
\* its extremes), with the zero test on the lower and the > 1e200 test on the
\* upper bound.
C9_ExtremaAsStated ==
  \A ep \in EntryPoints :
    ReachedHeuristic(ep) =>
      LET o == res[ep]
          l == o.loc
      IN /\ \E tIn \in {MaxOf(input.vT_x), MinOf(input.vT_x)} :
              l.below = BoundProxy(l.r, l.b, l.s, MaxOf(input.vT_x),
                                   MaxOf(l.vAlpha_i), MaxOf(input.vX),
                                   MinOf(l.vBeta_i), tIn, MinOf(input.vT_x))
         /\ \E tIn \in {MaxOf(input.vT_x), MinOf(input.vT_x)} :
              l.above = BoundProxy(l.r, l.b, l.s, MinOf(input.vT_x),
                                   MinOf(l.vAlpha_i), MinOf(input.vX),
                                   MaxOf(l.vBeta_i), tIn, MaxOf(input.vT_x))
         /\ TestsApplied(o)

\* C9 amended: the lower bound takes the maxima of t_x, alpha_i, x_i and
\* beta_i, and the minimum of t_x in its trailing exp(b * t_x) factor only;
\* the upper bound takes the minima of t_x, alpha_i and beta_i, the maximum of
\* t_x in its trailing factor only, and the maximum of x_i like the lower
\* bound; the zero test is applied to the lower and the > 1e200 test to the
\* upper bound.
C9_ExtremaAsComputed ==
  \A ep \in EntryPoints :
    ReachedHeuristic(ep) =>
      LET o == res[ep]
          l == o.loc
      IN /\ l.below = BoundProxy(l.r, l.b, l.s, MaxOf(input.vT_x),
                                 MaxOf(l.vAlpha_i), MaxOf(input.vX),
                                 MaxOf(l.vBeta_i), MaxOf(input.vT_x),
                                 MinOf(input.vT_x))
         /\ l.above = BoundProxy(l.r, l.b, l.s, MinOf(input.vT_x),
                                 MinOf(l.vAlpha_i), MaxOf(input.vX),
                                 MinOf(l.vBeta_i), MinOf(input.vT_x),
                                 MaxOf(input.vT_x))
         /\ TestsApplied(o)

\* C9 witness: the heuristic ran on a batch in which t_x, x, alpha_i and
\* beta_i each take two values, and wrote the upper-boundary warning.
C9_Witness ==
  \E ep \in EntryPoints :
    /\ ReachedHeuristic(ep) /\ WellFormed(input)
    /\ MaxOf(input.vT_x) # MinOf(input.vT_x)
    /\ MaxOf(input.vX) # MinOf(input.vX)
    /\ MaxOf(res[ep].loc.vAlpha_i) # MinOf(res[ep].loc.vAlpha_i)
    /\ MaxOf(res[ep].loc.vBeta_i) # MinOf(res[ep].loc.vBeta_i)
    /\ UpperMsg \in Range(res[ep].out)

\* C10: no quadrature workspace outlives the call that allocated it.
C10_WorkspacesReleased == live = 0

=============================================================================
